---------------------------- MODULE Spec2Model ----------------------------
(***************************************************************************)
(* recode-video: the stream policy of handle_file (which streams of a     *)
(* probed media file are copied, transcoded, converted or dropped), the   *)
(* compilation of the plan into ffmpeg arguments, the replacement of the  *)
(* original file, and the batch driver walk_paths.                        *)
(*                                                                         *)
(* Python lists are sequences; enumerate() is 0-based, so the stream at   *)
(* position i of a sequence has stream_index i - 1.                       *)
(***************************************************************************)
EXTENDS Integers, Sequences, FiniteSets, TLC

\* Longest probed stream list of the single-file specification FileSpec.
MaxStreams == 3
\* Longest probed stream list of the batch specification Spec.
MaxBatchStreams == 2

---------------------------------------------------------------------------
(* Codec sets the code tests membership in.                                *)

TranscodeVideoCodecs == {"vc1", "hevc", "vp9", "av1"}
CopyVideoCodecs == {"h264", "mjpeg", "png"}
PassthroughSubtitleCodecs == {"subrip", "hdmv_pgs_subtitle"}
MatchSuffixes ==
    {".mp4", ".mkv", ".avi", ".mov", ".wmv", ".flv", ".webm", ".m4v"}

---------------------------------------------------------------------------
(* What ffprobe can report: one record per stream, with the three fields  *)
(* handle_file reads.  "mpeg4", "dvd_subtitle", "tmcd" and the type       *)
(* "unknown" stand for the values the code has no branch for.  The        *)
(* default disposition is only read for subtitle streams.                 *)

VideoCodecNames == TranscodeVideoCodecs \cup CopyVideoCodecs \cup {"mpeg4"}
SubtitleCodecNames ==
    {"mov_text", "webvtt", "ass", "subrip", "hdmv_pgs_subtitle", "dvd_subtitle"}
DataCodecNames == {"bin_data", "tmcd"}

Stream(type, name, default) ==
    [codec_type |-> type, codec_name |-> name, default |-> default]

ProbedStreams ==
    {Stream("video", c, 0) : c \in VideoCodecNames}
        \cup {Stream("audio", "aac", 0)}
        \cup {Stream("subtitle", c, d) : c \in SubtitleCodecNames, d \in {0, 1}}
        \cup {Stream("attachment", "ttf", 0)}
        \cup {Stream("data", c, 0) : c \in DataCodecNames}
        \cup {Stream("unknown", "none", 0)}

StreamLists(n) == UNION {[1..k -> ProbedStreams] : k \in 0..n}

---------------------------------------------------------------------------
(* Python's sorted() on a list of codec names: lexicographic order of the *)
(* names that occur, by insertion into an ordered list.                   *)

CodecRank(c) ==
    CASE c = "ass" -> 1
      [] c = "dvd_subtitle" -> 2
      [] c = "hdmv_pgs_subtitle" -> 3
      [] c = "mov_text" -> 4
      [] c = "subrip" -> 5
      [] c = "webvtt" -> 6

RECURSIVE InsertCodec(_, _)
InsertCodec(sorted, c) ==
    IF sorted = <<>> THEN <<c>>
    ELSE IF CodecRank(c) < CodecRank(Head(sorted)) THEN <<c>> \o sorted
    ELSE <<Head(sorted)>> \o InsertCodec(Tail(sorted), c)

RECURSIVE SortedCodecs(_)
SortedCodecs(codecs) ==
    IF codecs = <<>> THEN <<>>
    ELSE InsertCodec(SortedCodecs(SubSeq(codecs, 1, Len(codecs) - 1)),
                     codecs[Len(codecs)])

SeqSet(s) == {s[i] : i \in 1..Len(s)}

---------------------------------------------------------------------------
(* OutputStream and the option templates.  An option is a template token: *)
(* ph says whether it ends in the placeholder {output_index}.             *)

Ph(text) == [t |-> text, ph |-> TRUE]
Lit(text) == [t |-> text, ph |-> FALSE]

OutputStream(input_index, options) ==
    [input_index |-> input_index, options |-> options]

CopyOptions == <<Ph("-c:"), Lit("copy")>>
X264Options ==
    <<Ph("-c:"), Lit("libx264"), Ph("-crf:"), Lit("20"),
      Ph("-preset:"), Lit("medium"), Ph("-disposition:"), Lit("+default")>>
SrtDefaultOptions ==
    <<Ph("-c:"), Lit("srt"), Ph("-disposition:"), Lit("+default")>>
CopyDispositionOptions(flag) ==
    <<Ph("-c:"), Lit("copy"), Ph("-disposition:"), Lit(flag)>>

\* What one iteration of the loop over the streams does: the entries it
\* appends to output_streams, whether it sets needs_run, the error it raises.
Append1(entries) == [entries |-> entries, needs_run |-> FALSE, error |-> "none"]
AppendRun(entries) == [entries |-> entries, needs_run |-> TRUE, error |-> "none"]
Raise(error) == [entries |-> <<>>, needs_run |-> FALSE, error |-> error]


---------------------------------------------------------------------------
(* The branches of the loop over the streams, one operator per codec_type. *)

VideoResult(stream, stream_index) ==
    IF stream.codec_name \in TranscodeVideoCodecs
    THEN AppendRun(<<OutputStream(stream_index, X264Options)>>)
    ELSE IF stream.codec_name \in CopyVideoCodecs
    THEN Append1(<<OutputStream(stream_index, CopyOptions)>>)
    ELSE Raise("UnhandledVideoCodec")

AudioResult(stream, stream_index) ==
    Append1(<<OutputStream(stream_index, CopyOptions)>>)

\* Mutant: the attachment branch appends nothing.
AttachmentResult_Dropped(stream, stream_index) == Append1(<<>>)

AttachmentResult(stream, stream_index) ==
    Append1(<<OutputStream(stream_index, CopyOptions)>>)

\* Mutant: a data stream of any codec is skipped instead of raising.
DataResult_Lenient(stream, stream_index) == AppendRun(<<>>)

DataResult(stream, stream_index) ==
    IF stream.codec_name = "bin_data"
    THEN AppendRun(<<>>)
    ELSE Raise("UnknownDataCodec")

\* The conditions of the subtitle elif chain, on the two lists computed
\* before the loop (Python list equality: same elements in the same order).
SoleConvertible(subtitle_codecs) ==
    subtitle_codecs = <<"webvtt">> \/ subtitle_codecs = <<"ass">>

PairWithDefaultConvertible(subtitle_codecs, default_subtitle_codecs) ==
    \/ subtitle_codecs = <<"webvtt", "subrip">>
         /\ default_subtitle_codecs = <<"webvtt">>
    \/ subtitle_codecs = <<"ass", "subrip">>
         /\ default_subtitle_codecs = <<"ass">>

\* Mutant: the list is compared as it is, without sorted().
SubripIsDefault_Unsorted(subtitle_codecs, default_subtitle_codecs) ==
    /\ \/ subtitle_codecs \in {<<"subrip", "webvtt">>, <<"ass", "subrip">>}
       \/ subtitle_codecs = <<"subrip">>
    /\ default_subtitle_codecs = <<"subrip">>

SubripIsDefault(subtitle_codecs, default_subtitle_codecs) ==
    /\ \/ SortedCodecs(subtitle_codecs)
              \in {<<"subrip", "webvtt">>, <<"ass", "subrip">>}
       \/ subtitle_codecs = <<"subrip">>
    /\ default_subtitle_codecs = <<"subrip">>

AllPassthrough(subtitle_codecs) ==
    SeqSet(subtitle_codecs) \subseteq PassthroughSubtitleCodecs

MovTextResult(stream_index) ==
    AppendRun(<<OutputStream(stream_index, SrtDefaultOptions)>>)

SoleConvertibleResult(stream_index) ==
    AppendRun(<<OutputStream(stream_index, SrtDefaultOptions),
                OutputStream(stream_index, CopyDispositionOptions("-default"))>>)

\* Mutant: the branch forgets needs_run = True.
PairResult_NoRun(stream, stream_index) ==
    Append1(<<OutputStream(stream_index,
        CopyDispositionOptions(
            IF stream.codec_name = "subrip" THEN "+default" ELSE "-default"))>>)

PairResult(stream, stream_index) ==
    AppendRun(<<OutputStream(stream_index,
        CopyDispositionOptions(
            IF stream.codec_name = "subrip" THEN "+default" ELSE "-default"))>>)

SubtitleResult(stream, stream_index, subtitle_codecs, default_subtitle_codecs) ==
    IF stream.codec_name = "mov_text"
    THEN MovTextResult(stream_index)
    ELSE IF SoleConvertible(subtitle_codecs)
    THEN SoleConvertibleResult(stream_index)
    ELSE IF PairWithDefaultConvertible(subtitle_codecs, default_subtitle_codecs)
    THEN PairResult(stream, stream_index)
    ELSE IF SubripIsDefault(subtitle_codecs, default_subtitle_codecs)
    THEN Append1(<<OutputStream(stream_index, CopyOptions)>>)
    ELSE IF AllPassthrough(subtitle_codecs)
    THEN Append1(<<OutputStream(stream_index, CopyOptions)>>)
    ELSE Raise("UnhandledSubtitleCombination")

StreamResult(stream, stream_index, subtitle_codecs, default_subtitle_codecs) ==
    IF stream.codec_type = "video" THEN VideoResult(stream, stream_index)
    ELSE IF stream.codec_type = "audio" THEN AudioResult(stream, stream_index)
    ELSE IF stream.codec_type = "subtitle"
    THEN SubtitleResult(stream, stream_index,
                        subtitle_codecs, default_subtitle_codecs)
    ELSE IF stream.codec_type = "attachment"
    THEN AttachmentResult(stream, stream_index)
    ELSE IF stream.codec_type = "data" THEN DataResult(stream, stream_index)
    ELSE Raise("UnknownStreamType")

\* The list comprehensions before the loop.
VideoStreams(streams) ==
    SelectSeq(streams, LAMBDA s : s.codec_type = "video")
SubtitleStreams(streams) ==
    SelectSeq(streams, LAMBDA s : s.codec_type = "subtitle")
CodecNames(streams) == [i \in 1..Len(streams) |-> streams[i].codec_name]
SubtitleCodecs(streams) == CodecNames(SubtitleStreams(streams))
DefaultSubtitleCodecs(streams) ==
    CodecNames(SelectSeq(SubtitleStreams(streams), LAMBDA s : s.default = 1))

\* The loop: the locals output_streams and needs_run after the iterations
\* from position i on, started from acc; the first error ends the loop and
\* leaves the locals as they were when it was raised.
RECURSIVE ClassifyLoop(_, _, _)
ClassifyLoop(streams, i, acc) ==
    IF i > Len(streams) THEN acc
    ELSE LET r == StreamResult(streams[i], i - 1, SubtitleCodecs(streams),
                               DefaultSubtitleCodecs(streams))
         IN  IF r.error # "none"
             THEN [acc EXCEPT !.error = r.error]
             ELSE ClassifyLoop(streams, i + 1,
                    [output_streams |-> acc.output_streams \o r.entries,
                     needs_run |-> acc.needs_run \/ r.needs_run,
                     error |-> "none"])

Classify(streams) ==
    IF Len(VideoStreams(streams)) = 0
    THEN [output_streams |-> <<>>, needs_run |-> FALSE,
          error |-> "NoVideoStream"]
    ELSE ClassifyLoop(streams, 1,
            [output_streams |-> <<>>, needs_run |-> FALSE, error |-> "none"])

---------------------------------------------------------------------------
(* list.sort(key=lambda x: x.input_index): a stable sort, as an insertion *)
(* of each entry after the entries whose key is not greater.              *)

\* Mutant: an unstable sort, which puts an entry before the entries of
\* equal key.
RECURSIVE InsertByIndex_Unstable(_, _)
InsertByIndex_Unstable(sorted, e) ==
    IF sorted = <<>> THEN <<e>>
    ELSE IF e.input_index <= Head(sorted).input_index THEN <<e>> \o sorted
    ELSE <<Head(sorted)>> \o InsertByIndex_Unstable(Tail(sorted), e)

RECURSIVE InsertByIndex(_, _)
InsertByIndex(sorted, e) ==
    IF sorted = <<>> THEN <<e>>
    ELSE IF e.input_index < Head(sorted).input_index THEN <<e>> \o sorted
    ELSE <<Head(sorted)>> \o InsertByIndex(Tail(sorted), e)

RECURSIVE SortByInputIndex(_)
SortByInputIndex(entries) ==
    IF entries = <<>> THEN <<>>
    ELSE InsertByIndex(SortByInputIndex(SubSeq(entries, 1, Len(entries) - 1)),
                       entries[Len(entries)])

---------------------------------------------------------------------------
(* The argument list.  A token is a text and a number: n is the number    *)
(* formatted into the text ("-c:" with n = 2 is "-c:2", "0:" with n = 1   *)
(* is "0:1"), NoNumber when the token holds none.                         *)

NoNumber == -1
Token(text, n) == [t |-> text, n |-> n]

\* opt.format(output_index=i)
Format(opt, i) == IF opt.ph THEN Token(opt.t, i) ELSE Token(opt.t, NoNumber)

\* Mutant: the placeholder is filled with the source index.
EntryArgs_SourceIndex(stream, i) ==
    <<Token("-map", NoNumber), Token("0:", stream.input_index)>>
        \o [k \in 1..Len(stream.options) |->
               Format(stream.options[k], stream.input_index)]

\* What one iteration of the loop over enumerate(output_streams) appends.
EntryArgs(stream, i) ==
    <<Token("-map", NoNumber), Token("0:", stream.input_index)>>
        \o [k \in 1..Len(stream.options) |-> Format(stream.options[k], i)]

RECURSIVE MapArgs(_, _)
MapArgs(output_streams, n) ==
    IF n = 0 THEN <<>>
    ELSE MapArgs(output_streams, n - 1) \o EntryArgs(output_streams[n], n - 1)

---------------------------------------------------------------------------
(* Paths and the file system.  A path is its directory names, its stem    *)
(* and its suffix; every path of the model is absolute and free of        *)
(* symbolic links, so Path.resolve() leaves it as it is.                  *)

Path(dirs, stem, suffix) == [dirs |-> dirs, stem |-> stem, suffix |-> suffix]

Lib == Path(<<>>, "lib", "")
EaDir == Path(<<"lib">>, "@eaDir", "")
PlexDir == Path(<<"lib">>, "Plex Versions", "")
FileA == Path(<<"lib">>, "a", ".mp4")
FileAMkv == Path(<<"lib">>, "a", ".mkv")
FileB == Path(<<"lib">>, "b", ".mkv")
FileC == Path(<<"lib", "@eaDir">>, "c", ".mkv")
FileD == Path(<<"lib", "Plex Versions">>, "d", ".mp4")
Notes == Path(<<"lib">>, "notes", ".txt")

Directories == {Lib, EaDir, PlexDir}
Files == {FileA, FileAMkv, FileB, FileC, FileD, Notes}

\* Path.parts, Path.with_suffix(), Path.is_dir()
Parts(p) == p.dirs \o <<p.stem \o p.suffix>>
WithSuffix(p, suffix) == [p EXCEPT !.suffix = suffix]
IsDir(p) == p \in Directories

\* The state of a file: absent, the original media file, the output of a
\* successful transcode, or the leftover of a copy that failed half way.
FileStates == {"absent", "original", "transcoded", "partial"}
Exists(f, p) == p \in Files /\ f[p] # "absent"

\* path.rglob("*"): every directory and every existing file below path.
IsBelow(p, dir) ==
    /\ Len(p.dirs) > Len(dir.dirs)
    /\ SubSeq(p.dirs, 1, Len(dir.dirs) + 1) = Parts(dir)
Rglob(f, dir) ==
    {p \in Directories : IsBelow(p, dir)}
        \cup {p \in Files : IsBelow(p, dir) /\ Exists(f, p)}

match_file(file) ==
    IF "@eaDir" \in SeqSet(Parts(file)) THEN FALSE
    ELSE IF IsDir(file) THEN FALSE
    ELSE IF "Plex Versions" \in SeqSet(Parts(file)) THEN FALSE
    ELSE file.suffix \in MatchSuffixes

\* The orders in which rglob may yield a set of paths.
Orderings(S) ==
    {q \in [1..Cardinality(S) -> S] : \A p \in S : \E i \in DOMAIN q : q[i] = p}

---------------------------------------------------------------------------
VARIABLES
    paths,           \* walk_paths: what is left of the outer call's list
    inner,           \* walk_paths: what is left of the recursive call's list
    pc,              \* where the run is: walk, probed, ffmpeg, move, unlink,
                     \* returned (handle_file is at its return), finished,
                     \* aborted (an exception left walk_paths)
    in_path,         \* handle_file: the file being handled
    streams,         \* handle_file: video_info["streams"]
    output_streams,  \* handle_file: the plan
    needs_run,       \* handle_file: the verdict
    ffmpeg_args,     \* handle_file: the compiled arguments
    error,           \* the exception raised, "none" when none
    fs,              \* the file system: the state of every file
    temp,            \* the temporary file of this handle_file call
    fs0,             \* history: fs when handle_file was called
    returncode       \* history: how ffmpeg ended in this call

vars == <<paths, inner, pc, in_path, streams, output_streams, needs_run,
          ffmpeg_args, error, fs, temp, fs0, returncode>>

NoPath == Path(<<>>, "", "")
out_path == WithSuffix(in_path, ".mkv")

InitialFs == [p \in Files |-> IF p = FileAMkv THEN "absent" ELSE "original"]

\* The command line: one or more existing paths.
ArgumentLists ==
    {<<Lib>>, <<FileA, FileB>>, <<FileB, Notes, FileA>>, <<FileC, Lib>>}

Locals0 ==
    /\ streams = <<>>
    /\ output_streams = <<>>
    /\ needs_run = FALSE
    /\ ffmpeg_args = <<>>
    /\ error = "none"
    /\ temp = "absent"
    /\ returncode = "not_run"

Init ==
    /\ paths \in ArgumentLists
    /\ inner = <<>>
    /\ pc = "walk"
    /\ in_path = NoPath
    /\ Locals0
    /\ fs = InitialFs
    /\ fs0 = InitialFs

---------------------------------------------------------------------------
(* walk_paths.  The recursive call runs on a list of paths that passed    *)
(* the predicate, so none of them is a directory and the recursion is one *)
(* level deep: the next path is the head of inner while the recursive     *)
(* call runs, the head of paths otherwise.                                *)

NextPath == IF inner # <<>> THEN Head(inner) ELSE Head(paths)
PopNext ==
    IF inner # <<>>
    THEN inner' = Tail(inner) /\ UNCHANGED paths
    ELSE paths' = Tail(paths) /\ UNCHANGED inner

\* path.is_dir(): the recursive call on the matching paths below it.
WalkDescend ==
    /\ pc = "walk"
    /\ inner = <<>> /\ paths # <<>>
    /\ IsDir(Head(paths))
    /\ paths' = Tail(paths)
    /\ inner' \in Orderings({p \in Rglob(fs, Head(paths)) : match_file(p)})
    /\ UNCHANGED <<pc, in_path, streams, output_streams, needs_run,
                   ffmpeg_args, error, fs, temp, fs0, returncode>>

\* Neither a directory nor a match: the path is passed over.
WalkSkip ==
    /\ pc = "walk"
    /\ inner # <<>> \/ paths # <<>>
    /\ ~IsDir(NextPath) /\ ~match_file(NextPath)
    /\ PopNext
    /\ UNCHANGED <<pc, in_path, streams, output_streams, needs_run,
                   ffmpeg_args, error, fs, temp, fs0, returncode>>

\* callback(path): handle_file up to the return of get_video_info, which
\* raises when ffprobe fails and otherwise returns the streams it reports.
WalkCall ==
    /\ pc = "walk"
    /\ inner # <<>> \/ paths # <<>>
    /\ ~IsDir(NextPath) /\ match_file(NextPath)
    /\ PopNext
    /\ in_path' = NextPath
    /\ fs0' = fs
    /\ output_streams' = <<>>
    /\ needs_run' = FALSE
    /\ ffmpeg_args' = <<>>
    /\ temp' = "absent"
    /\ returncode' = "not_run"
    /\ \/ /\ Exists(fs, NextPath)
          /\ streams' \in StreamLists(MaxBatchStreams)
          /\ error' = "none"
          /\ pc' = "probed"
       \/ /\ streams' = <<>>
          /\ error' = "ProbeFailure"
          /\ pc' = "aborted"
    /\ UNCHANGED fs

\* Both loops are over: walk_paths returns.
WalkReturn ==
    /\ pc = "walk"
    /\ inner = <<>> /\ paths = <<>>
    /\ pc' = "finished"
    /\ UNCHANGED <<paths, inner, in_path, streams, output_streams, needs_run,
                   ffmpeg_args, error, fs, temp, fs0, returncode>>

---------------------------------------------------------------------------
(* handle_file after the probe.                                            *)

\* ffmpeg_args once the loop over enumerate(output_streams) is over.
CompileArgs(path, plan) ==
    <<Token("-i", NoNumber), Token(path.stem \o path.suffix, NoNumber)>>
        \o MapArgs(plan, Len(plan))

\* From the probe's answer to the call of ffmpeg: the check for a video
\* stream, the loop over the streams, the early return, the sort and the
\* compilation.  An exception leaves walk_paths, which catches nothing.
Evaluate ==
    /\ pc = "probed"
    /\ LET r == Classify(streams)
           plan == SortByInputIndex(r.output_streams)
       IN  IF r.error # "none"
           THEN /\ pc' = "aborted"
                /\ error' = r.error
                /\ output_streams' = r.output_streams
                /\ needs_run' = r.needs_run
                /\ UNCHANGED ffmpeg_args
           ELSE IF ~r.needs_run
           THEN /\ pc' = "returned"
                /\ output_streams' = r.output_streams
                /\ needs_run' = FALSE
                /\ UNCHANGED <<error, ffmpeg_args>>
           ELSE /\ pc' = "ffmpeg"
                /\ output_streams' = plan
                /\ needs_run' = TRUE
                /\ ffmpeg_args' = CompileArgs(in_path, plan)
                /\ UNCHANGED error
    /\ UNCHANGED <<paths, inner, in_path, streams, fs, temp, fs0,
                   returncode>>

\* Mutant: subprocess.run without check=True, so that a non-zero exit goes
\* on to the move.
RunFfmpeg_Unchecked ==
    /\ pc = "ffmpeg"
    /\ \/ returncode' = "zero" /\ temp' = "transcoded"
       \/ returncode' = "nonzero" /\ temp' = "partial"
    /\ pc' = "move"
    /\ UNCHANGED <<paths, inner, in_path, streams, output_streams, needs_run,
                   ffmpeg_args, error, fs, fs0>>

\* NamedTemporaryFile(delete=False), then subprocess.run(..., check=True):
\* ffmpeg writes the temporary file; a non-zero exit raises.
RunFfmpeg ==
    /\ pc = "ffmpeg"
    /\ \/ /\ returncode' = "zero"
          /\ temp' = "transcoded"
          /\ pc' = "move"
          /\ UNCHANGED error
       \/ /\ returncode' = "nonzero"
          /\ temp' = "partial"
          /\ pc' = "aborted"
          /\ error' = "TranscodeFailure"
    /\ UNCHANGED <<paths, inner, in_path, streams, output_streams, needs_run,
                   ffmpeg_args, fs, fs0>>

\* shutil.move(temp_path, out_path): a rename, or across file systems a
\* copy and a removal; a copy that fails may leave a part of the file.
Move ==
    /\ pc = "move"
    /\ \/ /\ fs' = [fs EXCEPT ![out_path] = temp]
          /\ temp' = "absent"
          /\ pc' = "unlink"
          /\ UNCHANGED error
       \/ /\ \/ UNCHANGED fs
             \/ fs' = [fs EXCEPT ![out_path] = "partial"]
          /\ pc' = "aborted"
          /\ error' = "MoveFailure"
          /\ UNCHANGED temp
    /\ UNCHANGED <<paths, inner, in_path, streams, output_streams, needs_run,
                   ffmpeg_args, fs0, returncode>>

\* if in_path != out_path and out_path.exists(): in_path.unlink()
Unlink ==
    /\ pc = "unlink"
    /\ IF in_path # out_path /\ Exists(fs, out_path)
       THEN fs' = [fs EXCEPT ![in_path] = "absent"]
       ELSE UNCHANGED fs
    /\ pc' = "returned"
    /\ UNCHANGED <<paths, inner, in_path, streams, output_streams, needs_run,
                   ffmpeg_args, error, temp, fs0, returncode>>

\* handle_file returns to the loop of walk_paths: its locals are gone.
Return ==
    /\ pc = "returned"
    /\ pc' = "walk"
    /\ in_path' = NoPath
    /\ streams' = <<>>
    /\ output_streams' = <<>>
    /\ needs_run' = FALSE
    /\ ffmpeg_args' = <<>>
    /\ temp' = "absent"
    /\ returncode' = "not_run"
    /\ fs0' = fs
    /\ UNCHANGED <<paths, inner, error, fs>>

Next ==
    \/ WalkDescend
    \/ WalkSkip
    \/ WalkCall
    \/ WalkReturn
    \/ Evaluate
    \/ RunFfmpeg
    \/ Move
    \/ Unlink
    \/ Return

Spec == Init /\ [][Next]_vars

---------------------------------------------------------------------------
(* One call of handle_file on longer stream lists: the run on one file    *)
(* given on the command line, from the return of get_video_info.          *)

FileInit ==
    /\ paths = <<>>
    /\ inner = <<>>
    /\ pc = "probed"
    /\ in_path \in {FileA, FileB}
    /\ streams \in StreamLists(MaxStreams)
    /\ output_streams = <<>>
    /\ needs_run = FALSE
    /\ ffmpeg_args = <<>>
    /\ error = "none"
    /\ temp = "absent"
    /\ returncode = "not_run"
    /\ fs = InitialFs
    /\ fs0 = InitialFs

FileNext ==
    \/ Evaluate
    \/ RunFfmpeg
    \/ Move
    \/ Unlink
    \/ Return
    \/ WalkReturn

FileSpec == FileInit /\ [][FileNext]_vars

---------------------------------------------------------------------------
(* Vocabulary of the properties, stated on the probed streams and on the  *)
(* plan, apart from the operators above.                                   *)

ClassificationErrors ==
    {"UnhandledVideoCodec", "UnhandledSubtitleCombination",
     "UnknownDataCodec", "UnknownStreamType"}
EvaluationErrors == ClassificationErrors \cup {"NoVideoStream"}

\* handle_file has run on in_path past the loop over the streams.
Evaluated ==
    /\ pc \in {"ffmpeg", "move", "unlink", "returned", "aborted"}
    /\ error # "ProbeFailure"
\* ... and the loop raised nothing.
ClassifiedOk == Evaluated /\ error \notin EvaluationErrors

Positions(seq, Test(_)) == {i \in 1..Len(seq) : Test(seq[i])}
IsSubtitle(s) == s.codec_type = "subtitle"
SubtitleCount(ss, codec) ==
    Cardinality(Positions(ss, LAMBDA s : IsSubtitle(s) /\ s.codec_name = codec))
DefaultCount(ss, codec) ==
    Cardinality(Positions(ss,
        LAMBDA s : IsSubtitle(s) /\ s.codec_name = codec /\ s.default = 1))
Subtitles(ss) == Cardinality(Positions(ss, IsSubtitle))
DefaultSubtitles(ss) ==
    Cardinality(Positions(ss, LAMBDA s : IsSubtitle(s) /\ s.default = 1))

\* Subtitle rule 2: the file's only subtitle stream, webvtt or ass.
SoleTrack(ss, codec) == Subtitles(ss) = 1 /\ SubtitleCount(ss, codec) = 1
RuleTwoFile(ss) == SoleTrack(ss, "webvtt") \/ SoleTrack(ss, "ass")
\* Subtitle rule 3, on multisets: one codec track and one subrip track,
\* of which the codec track alone is default.
PairFile(ss, codec) ==
    /\ Subtitles(ss) = 2
    /\ SubtitleCount(ss, codec) = 1 /\ SubtitleCount(ss, "subrip") = 1
    /\ DefaultSubtitles(ss) = 1 /\ DefaultCount(ss, codec) = 1
RuleThreeFile(ss) == PairFile(ss, "webvtt") \/ PairFile(ss, "ass")

\* A stream that forces the transform, in the words of the policy.
Forces(ss, i) ==
    \/ ss[i].codec_type = "video"
         /\ ss[i].codec_name \in {"vc1", "hevc", "vp9", "av1"}
    \/ ss[i].codec_type = "data" /\ ss[i].codec_name = "bin_data"
    \/ /\ IsSubtitle(ss[i])
       /\ \/ ss[i].codec_name = "mov_text"
          \/ RuleTwoFile(ss)
          \/ RuleThreeFile(ss)

\* A stream no rule of the policy covers, whatever the other streams are.
NoRuleFor(s) ==
    \/ s.codec_type \notin {"video", "audio", "subtitle", "attachment", "data"}
    \/ s.codec_type = "video"
         /\ s.codec_name \notin
              {"vc1", "hevc", "vp9", "av1", "h264", "mjpeg", "png"}
    \/ s.codec_type = "data" /\ s.codec_name # "bin_data"
    \/ IsSubtitle(s)
         /\ s.codec_name \notin
              {"mov_text", "webvtt", "ass", "subrip", "hdmv_pgs_subtitle"}

HasVideo(ss) == \E i \in 1..Len(ss) : ss[i].codec_type = "video"
Rejected(ss) == ~HasVideo(ss) \/ \E i \in 1..Len(ss) : NoRuleFor(ss[i])

\* The plan entries that carry stream i (stream_index i - 1).
EntriesOf(plan, i) == {k \in 1..Len(plan) : plan[k].input_index = i - 1}
Dropped(s) == s.codec_type = "data" /\ s.codec_name = "bin_data"

\* The literal that follows the option key in an entry's options.
HasOption(e, key) == \E k \in 1..Len(e.options) - 1 : e.options[k] = Ph(key)
OptionValue(e, key) ==
    e.options[(CHOOSE k \in 1..Len(e.options) - 1 : e.options[k] = Ph(key)) + 1].t
IsCopy(e) == OptionValue(e, "-c:") = "copy"
SetsDefault(e) ==
    HasOption(e, "-disposition:") /\ OptionValue(e, "-disposition:") = "+default"
ClearsDefault(e) ==
    HasOption(e, "-disposition:") /\ OptionValue(e, "-disposition:") = "-default"

---------------------------------------------------------------------------
(* The batch driver.                                                       *)

\* The paths walk_paths has yet to hand to the callback.
RemainingCandidates ==
    {p \in SeqSet(inner) \cup SeqSet(paths) : match_file(p)}
        \cup UNION {{q \in Rglob(fs, d) : match_file(q)} :
                      d \in {p \in SeqSet(paths) : IsDir(p)}}

\* C1: a classification error raised for one file ends that file only:
\* when the run is over, every candidate file that came after the file
\* has been handed to handle_file, so none is left.
C1_ErrorEndsOneFileOnly ==
    (pc = "aborted" /\ error \in ClassificationErrors)
        => RemainingCandidates = {}

---------------------------------------------------------------------------
(* The transform step.                                                     *)

\* C2: the source is never destroyed before a valid replacement exists.
\* No step changes a file unless ffmpeg exited zero in this call; the
\* output path is written only by the move, which follows a transcode that
\* exited zero and carries the transcoded file or fails; the original is
\* removed only by the step after the move, only when the output path is
\* another path, and only when the output path exists and holds the
\* transcoded file.
C2_SourceOutlivesReplacement ==
    [][fs' # fs =>
         /\ returncode = "zero"
         /\ pc \in {"move", "unlink"}
         /\ fs'[out_path] # fs[out_path]
              => /\ pc = "move" /\ temp = "transcoded"
                 /\ pc' = "unlink" => fs'[out_path] = "transcoded"
         /\ (fs'[in_path] = "absent" /\ fs[in_path] # "absent")
              => /\ pc = "unlink"
                 /\ in_path # out_path
                 /\ fs[out_path] = "transcoded"
                 /\ fs'[out_path] = "transcoded"]_vars

\* C2 witness: a call that replaced a.mp4 by the transcoded a.mkv.
C2_Witness ==
    /\ in_path = FileA
    /\ returncode = "zero"
    /\ fs[FileA] = "absent"
    /\ fs[FileAMkv] = "transcoded"

---------------------------------------------------------------------------
(* The policy.                                                             *)

\* The stream an applied plan entry produces from its source stream:
\* libx264 makes an h264 stream, srt a subrip stream, copy keeps the codec;
\* the disposition option sets or clears the default flag, which is kept
\* when the entry has none.
PostStream(src, e) ==
    [codec_type |-> src.codec_type,
     codec_name |-> IF OptionValue(e, "-c:") = "libx264" THEN "h264"
                    ELSE IF OptionValue(e, "-c:") = "srt" THEN "subrip"
                    ELSE src.codec_name,
     default |-> IF SetsDefault(e) THEN 1
                 ELSE IF ClearsDefault(e) THEN 0
                 ELSE src.default]
\* The streams of the file the plan produces, in plan order.
PostTransform(ss, plan) ==
    [k \in 1..Len(plan) |-> PostStream(ss[plan[k].input_index + 1], plan[k])]

\* C3: idempotence.  When a stream list is classified without error and
\* needs the transform, the stream list the plan produces is classified
\* without error and does not need the transform.
C3_Idempotent ==
    (ClassifiedOk /\ needs_run)
        => LET again == Classify(PostTransform(streams, output_streams))
           IN  again.error = "none" /\ ~again.needs_run

\* C3 witness: a plan that transcodes the video and corrects the default
\* flags of a webvtt and subrip pair, and the streams it produces.
C3_Witness ==
    /\ ClassifiedOk /\ needs_run
    /\ streams = <<Stream("video", "hevc", 0), Stream("subtitle", "webvtt", 1),
                   Stream("subtitle", "subrip", 0)>>
    /\ PostTransform(streams, output_streams)
         = <<Stream("video", "h264", 1), Stream("subtitle", "webvtt", 0),
             Stream("subtitle", "subrip", 1)>>

\* The non-subtitle streams of the file raise nothing.
OthersClassifiable(ss) ==
    HasVideo(ss) /\ \A i \in 1..Len(ss) : IsSubtitle(ss[i]) \/ ~NoRuleFor(ss[i])

\* C4: subtitle rule 3 is decided on the set of subtitle codecs.  For a
\* file whose subtitle streams are one webvtt (or ass) and one subrip with
\* the webvtt (ass) stream alone default, in either order, every subtitle
\* stream is copied by one entry that sets the default flag iff the stream
\* is subrip and clears it otherwise, the transform is forced and nothing
\* is raised.
C4_RuleThreeAnyOrder ==
    (Evaluated /\ OthersClassifiable(streams) /\ RuleThreeFile(streams))
        => /\ error = "none"
           /\ needs_run
           /\ \A i \in Positions(streams, IsSubtitle) :
                \E k \in 1..Len(output_streams) :
                    /\ EntriesOf(output_streams, i) = {k}
                    /\ IsCopy(output_streams[k])
                    /\ IF streams[i].codec_name = "subrip"
                       THEN SetsDefault(output_streams[k])
                       ELSE ClearsDefault(output_streams[k])

\* C5 as claimed: the plan refers to probed streams only, and every stream
\* that is not dropped has exactly one entry.
C5_ExactlyOnce ==
    ClassifiedOk
        => /\ \A k \in 1..Len(output_streams) :
                output_streams[k].input_index \in 0..Len(streams) - 1
           /\ \A i \in 1..Len(streams) :
                Cardinality(EntriesOf(output_streams, i))
                    = IF Dropped(streams[i]) THEN 0 ELSE 1

\* C5 as amended: the plan refers to probed streams only; a bin_data data
\* stream has no entry; the only subtitle stream of a file, when it is
\* webvtt or ass, has exactly two entries; every other stream has exactly
\* one.
C5_OnceOrRuleTwoTwice ==
    ClassifiedOk
        => /\ \A k \in 1..Len(output_streams) :
                output_streams[k].input_index \in 0..Len(streams) - 1
           /\ \A i \in 1..Len(streams) :
                Cardinality(EntriesOf(output_streams, i))
                    = IF Dropped(streams[i]) THEN 0
                      ELSE IF IsSubtitle(streams[i]) /\ RuleTwoFile(streams)
                      THEN 2
                      ELSE 1

\* C5 witness: a file with an attachment and a sole webvtt or ass subtitle
\* stream, classified without error.
C5_Witness ==
    /\ ClassifiedOk
    /\ \E i \in 1..Len(streams) : streams[i].codec_type = "attachment"
    /\ \E i \in 1..Len(streams) :
         IsSubtitle(streams[i]) /\ Cardinality(EntriesOf(output_streams, i)) = 2

\* C6: for a stream list classified without error, the transform is needed
\* iff some stream forces it (a vc1, hevc, vp9 or av1 video stream, a
\* subtitle stream under rule 1, 2 or 3, a bin_data data stream); and when
\* it is not needed, ffmpeg is not run, no argument is compiled, no
\* temporary file is made and no file changes.
C6_VerdictIffForced ==
    ClassifiedOk
        => /\ needs_run <=> \E i \in 1..Len(streams) : Forces(streams, i)
           /\ ~needs_run
                => /\ returncode = "not_run"
                   /\ ffmpeg_args = <<>>
                   /\ temp = "absent"
                   /\ fs = fs0
                   /\ pc = "returned"

\* C6 witness: the only forcing streams are a subtitle pair under rule 3.
C6_Witness ==
    /\ ClassifiedOk /\ needs_run
    /\ streams = <<Stream("video", "h264", 0), Stream("subtitle", "ass", 1),
                   Stream("subtitle", "subrip", 0)>>

\* C7: rejection pre-empts execution.  For a file without a video stream,
\* or with a stream at any position that no rule covers, or whenever the
\* loop over the streams raises, handle_file ends in the error before
\* anything is compiled: no argument, no run of ffmpeg, no temporary file
\* and no change to any file.
C7_RejectionPreempts ==
    (Evaluated /\ (Rejected(streams) \/ error \in EvaluationErrors))
        => /\ pc = "aborted"
           /\ error \in EvaluationErrors
           /\ ffmpeg_args = <<>>
           /\ returncode = "not_run"
           /\ temp = "absent"
           /\ fs = fs0

\* C7 witness: [video(av1), data(tmcd)]: the video stream has forced the
\* transform when the data stream raises.
C7_Witness ==
    /\ streams = <<Stream("video", "av1", 0), Stream("data", "tmcd", 0)>>
    /\ pc = "aborted"
    /\ error = "UnknownDataCodec"
    /\ needs_run

\* C8: the compiled plan is sorted by source index, ascending; two entries
\* of one source index are next to each other, the entry that converts to
\* srt and sets the default flag first, the copy that clears it second.
C8_PlanSorted ==
    (ClassifiedOk /\ needs_run)
        => \A j \in 1..Len(output_streams) : \A k \in j + 1..Len(output_streams) :
             /\ output_streams[j].input_index <= output_streams[k].input_index
             /\ output_streams[j].input_index = output_streams[k].input_index
                  => /\ k = j + 1
                     /\ OptionValue(output_streams[j], "-c:") = "srt"
                     /\ SetsDefault(output_streams[j])
                     /\ IsCopy(output_streams[k])
                     /\ ClearsDefault(output_streams[k])

\* C8 witness: rule 2 has put two entries of one index into a compiled plan.
C8_Witness ==
    /\ ClassifiedOk /\ needs_run
    /\ \E j \in 1..Len(output_streams) - 1 :
         output_streams[j].input_index = output_streams[j + 1].input_index
    /\ Len(output_streams) = 3

\* Where the tokens of plan entry k start in the argument list: after
\* "-i", the input path and the tokens of the entries before it.
RECURSIVE ArgsBefore(_, _)
ArgsBefore(plan, k) ==
    IF k = 1 THEN 2
    ELSE ArgsBefore(plan, k - 1) + 2 + Len(plan[k - 1].options)

\* C9: in the compiled arguments every plan entry, in plan order, gives
\* "-map", then the selection of its source index, then its options, in
\* which every placeholder holds the entry's 0-based position in the plan
\* and every other token is unchanged; the list holds nothing else.
C9_OptionsAddressOutputPosition ==
    (ClassifiedOk /\ needs_run)
        => /\ Len(ffmpeg_args) = ArgsBefore(output_streams, Len(output_streams) + 1)
           /\ \A k \in 1..Len(output_streams) :
                LET at == ArgsBefore(output_streams, k)
                    e == output_streams[k]
                IN  /\ ffmpeg_args[at + 1] = Token("-map", NoNumber)
                    /\ ffmpeg_args[at + 2] = Token("0:", e.input_index)
                    /\ \A m \in 1..Len(e.options) :
                         ffmpeg_args[at + 2 + m]
                           = Token(e.options[m].t,
                                   IF e.options[m].ph THEN k - 1 ELSE NoNumber)

\* C9 witness: a plan in which an entry's position differs from its source
\* index, before (a dropped stream) and behind (a duplicated subtitle).
C9_Witness ==
    /\ ClassifiedOk /\ needs_run
    /\ \E k \in 1..Len(output_streams) : output_streams[k].input_index > k - 1
    /\ ffmpeg_args # <<>>

\* C10: in a plan made without error at most one entry of a subtitle
\* stream sets the default flag.
C10_OneDefaultSubtitle ==
    ClassifiedOk
        => Cardinality({k \in 1..Len(output_streams) :
                          /\ IsSubtitle(streams[output_streams[k].input_index + 1])
                          /\ SetsDefault(output_streams[k])}) <= 1

===========================================================================
